---- MODULE Spec2Model ----
(***************************************************************************)
(* Model of the temporal resolve shader of the clouds package              *)
(* (packages/clouds/src/shaders/cloudsResolve.frag) and of the aerial      *)
(* perspective shader of the atmosphere package                            *)
(* (packages/atmosphere/src/shaders/aerialPerspectiveEffect.frag).         *)
(*                                                                         *)
(* The resolve shader is followed for one fragment, gl_FragCoord = coord,  *)
(* over successive frames.  A buffer is a function from texels to samples, *)
(* over the texels the fragment can fetch: those of the output and a       *)
(* border of one texel, where a fetch falls outside the texture and its    *)
(* result is whatever the buffer holds there.  Floats are fixed-point      *)
(* integers:                                                               *)
(*   - a colour channel c is the integer c * ColorScale;                   *)
(*   - a UV coordinate u is the integer u * UvOne, UvOne = 2 * Width, so   *)
(*     that the centre of pixel x is 2 * x + 1 and one texel is 2;         *)
(*   - a velocity is counted in half pixels (VelocityScale = 2);           *)
(*   - temporalAlpha a is the integer a * AlphaOne.                        *)
(***************************************************************************)
EXTENDS Integers, Sequences, FiniteSets, TLC

\* ---------------------------------------------------------------- bounds
Width == 4
MaxFrame == 17
MaxVelocity == 2
MaxColor == 2
MaxGamma == 2

\* bounds of the aerial perspective effect
MaxHeight == 6
MaxChannel == 2

\* bound of the story's controls: the changes of a control followed
MaxChanges == 2

\* bounds of the pass: the frames followed and the output resolutions
MaxPassFrames == 3
MaxSize == 2

\* bound of the material: the assignments to sun that are followed
MaxAssignments == 6

\* ----------------------------------------------------- fixed-point scales
NeighborCount == 9
ColorScale == NeighborCount * NeighborCount
VelocityScale == 2
UvOne == VelocityScale * Width
AlphaOne == 10
Channels == 1..2
\* Of the aerial perspective effect: depth, in steps of 1e-7; colours,
\* irradiances, transmittances, unit vectors and the factor t, in thousandths.
DepthOne == 10000000
One == 1000

VARIABLES
  defines,               \* the #defines the resolve shader is compiled with
  frame,                 \* uniform int frame
  coord,                 \* ivec2(gl_FragCoord.xy) of the fragment
  colorBuffer,           \* uniform sampler2D colorBuffer: texel -> colour
  shadowLengthBuffer,    \* uniform sampler2D shadowLengthBuffer, likewise
  depthVelocityBuffer,   \* uniform sampler2D depthVelocityBuffer: texel -> rgb
  varianceGamma,         \* uniform float varianceGamma
  temporalAlpha,         \* uniform float temporalAlpha
  historyColor,          \* texture(colorHistoryBuffer, prevUv) of the last frame
  historyShadowLength,   \* texture(shadowLengthHistoryBuffer, prevUv).r, likewise
  branch,                \* the return the last invocation left through
  resolvedColor,         \* outputColor as temporalUpscale/temporalAntialias set it
  outputColor,           \* layout(location = 0) out vec4 outputColor
  outputShadowLength     \* layout(location = 1) out float outputShadowLength

resolveVars == <<defines, frame, coord, colorBuffer, shadowLengthBuffer,
                 depthVelocityBuffer, varianceGamma, temporalAlpha, historyColor,
                 historyShadowLength, branch, resolvedColor, outputColor,
                 outputShadowLength>>

VARIABLES
  effectDefines,               \* the #defines of the aerial perspective effect
  inputColor,                  \* const vec4 inputColor of mainImage
  depth,                       \* readDepth(uv)
  cameraHeight,                \* uniform float cameraHeight
  geometricErrorAltitudeRange, \* uniform vec2 geometricErrorAltitudeRange
  irradianceScale,             \* uniform float irradianceScale
  inverseRadiiSquared,         \* 1.0 / vEllipsoidRadiiSquared, up to the
                               \* common factor that normalize cancels
  bottomRadius,                \* u_bottom_radius of the atmosphere
  reconstructed,               \* worldPosition and worldNormal of lines 113-115
  lookup,                      \* what the precomputed atmosphere returns
  path,                        \* the return the last mainImage left through
  correction,                  \* float t of correctGeometricError
  world,                       \* worldPosition and worldNormal after line 124
  effectOutputColor            \* out vec4 outputColor of mainImage

effectVars == <<effectDefines, inputColor, depth, cameraHeight,
                geometricErrorAltitudeRange, irradianceScale,
                inverseRadiiSquared, bottomRadius, reconstructed, lookup,
                path, correction, world, effectOutputColor>>

VARIABLES
  pass,             \* the pass handed to useCloudsControls: "null" or "mounted"
  enabled,          \* the control enabled of the folder clouds
  debugControls,    \* the controls of the folder debug
  renderMaterial,   \* pass.renderPass.currentMaterial: defines, needsUpdate
  resolveMaterial,  \* pass.renderPass.resolveMaterial: defines, needsUpdate
  controlParams     \* the CloudsControlParams the hook returned last

controlVars == <<pass, enabled, debugControls, renderMaterial,
                 resolveMaterial, controlParams>>

VARIABLES
  cloudsRendering,      \* the controls of the folder clouds rendering
  shadowRendering,      \* the controls of the folder shadow rendering
  scatteringParams,     \* the controls of the folder scattering
  cloudsRaymarchParams, \* the controls of the folder clouds raymarch
  shadowRaymarchParams, \* the controls of the folder shadow raymarch
  shadowSettings,       \* pass.shadow.cascadeCount, pass.shadowPass.temporalPass
                        \* and its material's temporalJitter, as last assigned
  renderUniforms,       \* the uniforms of pass.renderPass.currentMaterial
                        \* that useFrame has written
  shadowUniforms,       \* the uniforms of pass.shadowPass.currentMaterial
                        \* that useFrame has written
  cloudsProps,          \* the Partial<CloudsProps> the hook returned last
  controlChanges        \* how many times a control of these folders changed

configVars == <<cloudsRendering, shadowRendering, scatteringParams,
                cloudsRaymarchParams, shadowRaymarchParams, shadowSettings,
                renderUniforms, shadowUniforms, cloudsProps, controlChanges>>

VARIABLES
  passFrame,       \* the frames the pass has rendered
  passConfig,      \* the mode, resolution scale and cascade count in effect
  passSize,        \* the output resolution of the pass
  texelSizeFor,    \* the resolution the uniform texelSize was set for
  historyTargets,  \* the two history render targets of the resolve stage
  historyRead,     \* the history target bound as the history buffer
  resolved         \* what the last resolve of the pass sampled and wrote

passVars == <<passFrame, passConfig, passSize, texelSizeFor, historyTargets,
              historyRead, resolved>>

VARIABLES
  sunParameter,     \* the parameter sun the material was constructed with
  materialDefines,  \* the names in the defines of the AtmosphereMaterial
  materialVersion,  \* how often needsUpdate was set to true
  sunAssignments    \* the values assigned to sun since construction

materialVars == <<sunParameter, materialDefines, materialVersion,
                  sunAssignments>>

vars == <<resolveVars, effectVars, controlVars, configVars, passVars,
          materialVars>>

\* ------------------------------------------------------------- arithmetic
Abs(n) == IF n < 0 THEN -n ELSE n

\* Division rounding toward zero.
TruncDiv(a, b) == IF a >= 0 THEN a \div b ELSE -((-a) \div b)

Color(a, b) == <<a * ColorScale, b * ColorScale>>

\* ------------------------------------------------------- cloudsResolve.frag
Texels == (-1..Width) \X (-1..Width)

neighborOffsets ==
  << <<-1, -1>>, <<-1, 0>>, <<-1, 1>>,
     << 0, -1>>, << 0, 0>>, << 0, 1>>,
     << 1, -1>>, << 1, 0>>, << 1, 1>> >>

texelFetch(buffer, c) == buffer[c]

texelFetchOffset(buffer, c, offset) ==
  buffer[<<c[1] + offset[1], c[2] + offset[2]>>]

\* vec4 result = vec4(1e7, 0.0, 0.0, 0.0)
FarDepth == 10000000

RECURSIVE ClosestFrom(_, _, _, _)
ClosestFrom(buffer, c, i, result) ==
  IF i > NeighborCount THEN result
  ELSE LET neighbor == texelFetchOffset(buffer, c, neighborOffsets[i])
       IN  ClosestFrom(buffer, c, i + 1,
                       IF neighbor.r < result.r THEN neighbor ELSE result)

getClosestFragmentFromCenter(buffer, c) ==
  ClosestFrom(buffer, c, 1, texelFetch(buffer, c))

getClosestFragment(buffer, c) ==
  ClosestFrom(buffer, c, 1, [r |-> FarDepth, g |-> 0, b |-> 0])

bayerIndicesRepeated ==
  << <<0, 12, 3, 15>>,
     <<8, 4, 11, 7>>,
     <<2, 14, 1, 13>>,
     <<10, 6, 9, 4>> >>

bayerIndices ==
  << <<0, 12, 3, 15>>,
     <<8, 4, 11, 7>>,
     <<2, 14, 1, 13>>,
     <<10, 6, 9, 5>> >>

\* int(bayerIndices[coord.x % 4][coord.y % 4])
BayerValue(c) == bayerIndices[(c[1] % 4) + 1][(c[2] % 4) + 1]

\* bayerValue == frame % 16
IsCurrentFrameUnwrapped(c, f) == BayerValue(c) = f

IsCurrentFrameOfEight(c, f) == BayerValue(c) = f % 8

IsCurrentFrame(c, f) == BayerValue(c) = f % 16

\* ivec2 subCoord = coord / 4
SubCoordOfFragment(c) == c

SubCoord(c) == <<c[1] \div 4, c[2] \div 4>>

\* vUv of the fragment: the centre of its pixel.
FragUv(c) == <<2 * c[1] + 1, 2 * c[2] + 1>>

\* uniform vec2 texelSize, as setSize(Width, Width) leaves it.
texelSize == <<UvOne \div Width, UvOne \div Width>>

\* vec2 velocity = depthVelocity.gb * texelSize; vec2 prevUv = vUv - velocity
PrevUv(vUv, depthVelocity) ==
  LET velocity == <<(depthVelocity.g * texelSize[1]) \div VelocityScale,
                    (depthVelocity.b * texelSize[2]) \div VelocityScale>>
  IN  <<vUv[1] - velocity[1], vUv[2] - velocity[2]>>

RejectedAtBoundary(prevUv) ==
  prevUv[1] <= 0 \/ prevUv[1] >= UvOne \/ prevUv[2] <= 0 \/ prevUv[2] >= UvOne

Rejected(prevUv) ==
  prevUv[1] < 0 \/ prevUv[1] > UvOne \/ prevUv[2] < 0 \/ prevUv[2] > UvOne

\* --------------------------------------- #include "varianceClipping"
\* The default gamma of the four-argument call of temporalAntialias.
DefaultVarianceGamma == 1

\* The default of the uniform temporalAlpha, 0.1.
DefaultTemporalAlpha == 1

\* The 3x3 window of the buffer around c, with the current sample at c.
Window(buffer, c, current) ==
  [i \in 1..NeighborCount |->
     IF neighborOffsets[i] = <<0, 0>> THEN current
     ELSE texelFetchOffset(buffer, c, neighborOffsets[i])]

\* The first and second moments of channel ch over the window.
Sum(window, ch) ==
  window[1][ch] + window[2][ch] + window[3][ch] + window[4][ch] + window[5][ch]
    + window[6][ch] + window[7][ch] + window[8][ch] + window[9][ch]

SumSquares(window, ch) ==
  window[1][ch] * window[1][ch] + window[2][ch] * window[2][ch]
    + window[3][ch] * window[3][ch] + window[4][ch] * window[4][ch]
    + window[5][ch] * window[5][ch] + window[6][ch] * window[6][ch]
    + window[7][ch] * window[7][ch] + window[8][ch] * window[8][ch]
    + window[9][ch] * window[9][ch]

Mean(window, ch) == Sum(window, ch) \div NeighborCount

\* The mean of the squares less the square of the mean, as a colour value.
Variance(window, ch) ==
  (SumSquares(window, ch) \div NeighborCount
     - Mean(window, ch) * Mean(window, ch)) \div ColorScale

\* The channel that is furthest outside the box, relative to its extent.
FurthestOutside(d, extent) ==
  CHOOSE k \in Channels :
    /\ Abs(d[k]) > extent[k]
    /\ \A j \in Channels : Abs(d[k]) * extent[j] >= Abs(d[j]) * extent[k]

\* The history sample clamped into the box of half-width extent around mean,
\* along the line from mean to history.
ClipTowardMean(mean, extent, history) ==
  LET d == <<history[1] - mean[1], history[2] - mean[2]>>
  IN  IF \A ch \in Channels : Abs(d[ch]) <= extent[ch] THEN history
      ELSE LET k == FurthestOutside(d, extent)
           IN  <<mean[1] + TruncDiv(d[1] * extent[k], Abs(d[k])),
                 mean[2] + TruncDiv(d[2] * extent[k], Abs(d[k]))>>

varianceClipping(inputBuffer, c, current, history, gamma) ==
  LET w == Window(inputBuffer, c, current)
  IN  ClipTowardMean(<<Mean(w, 1), Mean(w, 2)>>,
                     <<gamma * Variance(w, 1), gamma * Variance(w, 2)>>,
                     history)

\* mix(x, y, a) = x * (1 - a) + y * a
Mix(x, y, a) == (x * (AlphaOne - a) + y * a) \div AlphaOne

MixColor(x, y, a) == <<Mix(x[1], y[1], a), Mix(x[2], y[2], a)>>

\* ---------------------------------------------------------- temporalUpscale
\* Lines 94-102: the history sample clipped with the uniform varianceGamma.
UpscaleUnclipped(inputBuffer, subCoord, current, history, gamma) == history

UpscaleClipped(inputBuffer, subCoord, current, history, gamma) ==
  varianceClipping(inputBuffer, subCoord, current, history, gamma)

UpscaleShadowLengthOfDefaultGamma(shadow, subCoord, current, history, gamma) ==
  varianceClipping(shadow, subCoord, current, history, DefaultVarianceGamma)[1]

\* Lines 104-117: the red channel of the shadow length history clipped with
\* the uniform varianceGamma.
UpscaleShadowLength(shadow, subCoord, current, history, gamma) ==
  varianceClipping(shadow, subCoord, current, history, gamma)[1]

\* The result is the branch taken and the two out parameters; without
\* SHADOW_LENGTH outputShadowLength is not written and keeps its value.
temporalUpscale(vUv, subCoord, currentFrame, color, shadow, depthVelocity, historySample, historyShadow, gamma, shadowLength, unwritten) ==
  LET currentColor == texelFetch(color, subCoord)
      currentShadowLength == texelFetch(shadow, subCoord)
      prevUv == PrevUv(vUv, getClosestFragment(depthVelocity, subCoord))
  IN  IF currentFrame
      THEN [branch |-> "current",
            color |-> currentColor,
            shadowLength |-> IF shadowLength THEN currentShadowLength[1]
                             ELSE unwritten]
      ELSE IF Rejected(prevUv)
      THEN [branch |-> "rejected",
            color |-> currentColor,
            shadowLength |-> IF shadowLength THEN currentShadowLength[1]
                             ELSE unwritten]
      ELSE [branch |-> "history",
            color |-> UpscaleClipped(color, subCoord, currentColor,
                                     historySample, gamma),
            shadowLength |->
              IF shadowLength
              THEN UpscaleShadowLength(shadow, subCoord, currentShadowLength,
                                       historyShadow, gamma)
              ELSE unwritten]

\* -------------------------------------------------------- temporalAntialias
\* Lines 137-139: the clipped history sample blended toward the current one.
AntialiasBlendSwapped(inputBuffer, c, current, history, alpha) ==
  MixColor(current,
           varianceClipping(inputBuffer, c, current, history,
                            DefaultVarianceGamma),
           alpha)

AntialiasBlend(inputBuffer, c, current, history, alpha) ==
  MixColor(varianceClipping(inputBuffer, c, current, history,
                            DefaultVarianceGamma),
           current, alpha)

\* Lines 141-150: the red channels of the clipped shadow length history and
\* of the current shadow length, blended by temporalAlpha.
AntialiasShadowLength(shadow, c, current, history, alpha) ==
  Mix(varianceClipping(shadow, c, current, history, DefaultVarianceGamma)[1],
      current[1], alpha)

temporalAntialias(vUv, c, color, shadow, depthVelocity, historySample, historyShadow, alpha, shadowLength, unwritten) ==
  LET currentColor == texelFetch(color, c)
      currentShadowLength == texelFetch(shadow, c)
      prevUv == PrevUv(vUv, getClosestFragment(depthVelocity, c))
  IN  IF Rejected(prevUv)
      THEN [branch |-> "rejected",
            color |-> currentColor,
            shadowLength |-> IF shadowLength THEN currentShadowLength[1]
                             ELSE unwritten]
      ELSE [branch |-> "history",
            color |-> AntialiasBlend(color, c, currentColor, historySample,
                                     alpha),
            shadowLength |->
              IF shadowLength
              THEN AntialiasShadowLength(shadow, c, currentShadowLength,
                                         historyShadow, alpha)
              ELSE unwritten]

\* --------------------------------------------------------------------- main
\* vec4(vec3(outputShadowLength * 0.05), 1.0), lines 168-170.
DebugShadowLengthColor(length) == <<length \div 20, length \div 20>>

main(d, f, c, color, shadow, depthVelocity, historySample, historyShadow, gamma, alpha, unwritten) ==
  LET r == IF d.TEMPORAL_UPSCALING
           THEN temporalUpscale(FragUv(c), SubCoord(c), IsCurrentFrame(c, f),
                                color, shadow, depthVelocity, historySample,
                                historyShadow, gamma, d.SHADOW_LENGTH,
                                unwritten)
           ELSE temporalAntialias(FragUv(c), c, color, shadow, depthVelocity,
                                  historySample, historyShadow, alpha,
                                  d.SHADOW_LENGTH, unwritten)
  IN  [branch |-> r.branch,
       resolved |-> r.color,
       shadowLength |-> r.shadowLength,
       color |-> IF d.SHADOW_LENGTH /\ d.DEBUG_SHOW_SHADOW_LENGTH
                 THEN DebugShadowLengthColor(r.shadowLength)
                 ELSE r.color]

\* The texel the shader fetches its current sample from.
FetchCoord(d, c) == IF d.TEMPORAL_UPSCALING THEN SubCoord(c) ELSE c

\* ------------------------------------- aerialPerspectiveEffect.frag
Clamp(x, lo, hi) == IF x < lo THEN lo ELSE IF x > hi THEN hi ELSE x

\* The product of two numbers in thousandths.
Mul(a, b) == (a * b) \div One

MulVec3(a, b) == <<Mul(a[1], b[1]), Mul(a[2], b[2]), Mul(a[3], b[3])>>
AddVec3(a, b) == <<a[1] + b[1], a[2] + b[2], a[3] + b[3]>>
ScaleVec3(a, k) == <<Mul(a[1], k), Mul(a[2], k), Mul(a[3], k)>>

\* Integer square root.
Isqrt(n) == CHOOSE r \in 0..n : r * r <= n /\ n < (r + 1) * (r + 1)

Length(v) == Isqrt(v[1] * v[1] + v[2] * v[2] + v[3] * v[3])

\* normalize(v), in thousandths, of a vector other than zero.
normalize(v) ==
  <<TruncDiv(v[1] * One, Length(v)), TruncDiv(v[2] * One, Length(v)),
    TruncDiv(v[3] * One, Length(v))>>

\* smoothstep(edge0, edge1, x) of GLSL, for edge0 < edge1.
smoothstep(edge0, edge1, x) ==
  LET t == Clamp(TruncDiv((x - edge0) * One, edge1 - edge0), 0, One)
  IN  (t * t * (3 * One - 2 * t)) \div (One * One)

\* GLSL leaves smoothstep undefined for edge0 >= edge1: any factor.
Smoothsteps(edge0, edge1, x) ==
  IF edge0 < edge1 THEN {smoothstep(edge0, edge1, x)}
  ELSE {0, One \div 2, One}

\* mix(x, y, t) of GLSL on vectors.
mixVec3(x, y, t) ==
  <<(x[1] * (One - t) + y[1] * t) \div One,
    (x[2] * (One - t) + y[2] * t) \div One,
    (x[3] * (One - t) + y[3] * t) \div One>>

\* vec3 normal of correctGeometricError: the normal of the ellipsoid.
EllipsoidNormal(inverseSquared, worldPosition) ==
  normalize(<<inverseSquared[1] * worldPosition[1],
              inverseSquared[2] * worldPosition[2],
              inverseSquared[3] * worldPosition[3]>>)

\* vec3 position of correctGeometricError: the point of the surface.
EllipsoidPosition(radius, normal) ==
  <<TruncDiv(radius * normal[1], One), TruncDiv(radius * normal[2], One),
    TruncDiv(radius * normal[3], One)>>

CorrectedGeometrySwapped(worldPosition, worldNormal, position, normal, t) ==
  [worldPosition |-> mixVec3(position, worldPosition, t),
   worldNormal |-> mixVec3(normal, worldNormal, t)]

\* The two assignments that end correctGeometricError.
CorrectedGeometry(worldPosition, worldNormal, position, normal, t) ==
  [worldPosition |-> mixVec3(worldPosition, position, t),
   worldNormal |-> mixVec3(worldNormal, normal, t)]

\* correctGeometricError: the factors t it may compute, each with the
\* worldPosition and the worldNormal it leaves.
correctGeometricError(minHeight, maxHeight, height, inverseSquared, radius, worldPosition, worldNormal) ==
  LET normal == EllipsoidNormal(inverseSquared, worldPosition)
      position == EllipsoidPosition(radius, normal)
  IN  {[t |-> t,
        geometry |-> CorrectedGeometry(worldPosition, worldNormal, position,
                                        normal, t)] :
         t \in Smoothsteps(minHeight, maxHeight, height)}

\* RECIPROCAL_PI, in thousandths.
ReciprocalPi == 318

\* getSunSkyIrradiance, with what GetSunAndSkyIrradiance returned.
getSunSkyIrradiance(d, color, scale, sunIrradiance, skyIrradiance) ==
  LET albedo == ScaleVec3(ScaleVec3(color, scale), ReciprocalPi)
  IN  IF d.SUN_IRRADIANCE /\ d.SKY_IRRADIANCE
      THEN MulVec3(albedo, AddVec3(sunIrradiance, skyIrradiance))
      ELSE IF d.SUN_IRRADIANCE THEN MulVec3(albedo, sunIrradiance)
      ELSE MulVec3(albedo, skyIrradiance)

getTransmittanceInscatterAfter(d, radiance, transmittance, inscatter) ==
  LET added == IF d.INSCATTER THEN AddVec3(radiance, inscatter) ELSE radiance
  IN  IF d.TRANSMITTANCE THEN MulVec3(added, transmittance) ELSE added

\* getTransmittanceInscatter, with what GetSkyRadianceToPoint returned.
getTransmittanceInscatter(d, radiance, transmittance, inscatter) ==
  LET attenuated == IF d.TRANSMITTANCE THEN MulVec3(radiance, transmittance)
                    ELSE radiance
  IN  IF d.INSCATTER THEN AddVec3(attenuated, inscatter) ELSE attenuated

IsFarPlaneBeyond(z) == z > DepthOne

\* depth >= 1.0 - 1e-7
IsFarPlane(z) == z >= DepthOne - 1

OutputColorOpaque(radiance, color) == [rgb |-> radiance, a |-> One]

\* vec4(radiance, inputColor.a)
OutputColor(radiance, color) == [rgb |-> radiance, a |-> color.a]

\* The statements of mainImage from line 126 on.
Shade(d, color, scale, atmosphere) ==
  LET lit == IF d.SUN_IRRADIANCE \/ d.SKY_IRRADIANCE
             THEN getSunSkyIrradiance(d, color.rgb, scale,
                                      atmosphere.sunIrradiance,
                                      atmosphere.skyIrradiance)
             ELSE color.rgb
      radiance == IF d.TRANSMITTANCE \/ d.INSCATTER
                  THEN getTransmittanceInscatter(d, lit,
                                                 atmosphere.transmittance,
                                                 atmosphere.inscatter)
                  ELSE lit
  IN  OutputColor(radiance, color)

\* mainImage: the outcomes of one invocation. geometry is the worldPosition
\* and worldNormal lines 113-115 reconstructed, before is what the variables
\* of the model held.
mainImage(d, color, z, height, range, scale, inverseSquared, radius, geometry, atmosphere, before) ==
  IF IsFarPlane(z)
  THEN {[path |-> "far", t |-> before.t, geometry |-> before.geometry,
         outputColor |-> color]}
  ELSE IF d.CORRECT_GEOMETRIC_ERROR
  THEN {[path |-> "shaded", t |-> c.t, geometry |-> c.geometry,
         outputColor |-> Shade(d, color, scale, atmosphere)] :
          c \in correctGeometricError(range[1], range[2], height,
                                      inverseSquared, radius,
                                      geometry.worldPosition,
                                      geometry.worldNormal)}
  ELSE {[path |-> "shaded", t |-> before.t, geometry |-> geometry,
         outputColor |-> Shade(d, color, scale, atmosphere)]}

\* ------------------------------------------------------ AtmosphereMaterial
\* The defines of the constructor; its parameter sun is not used.
ConstructedDefines(sun) == {"SUN", "METER_TO_UNIT_LENGTH"}

\* get sun
Sun(definesOf) == "SUN" \in definesOf

SunSetAlways(definesOf, value) ==
  [defines |-> IF value THEN definesOf \cup {"SUN"} ELSE definesOf \ {"SUN"},
   needsUpdate |-> TRUE]

\* set sun: the defines after the assignment, and whether needsUpdate was
\* set to true.
SunSet(definesOf, value) ==
  IF value # Sun(definesOf)
  THEN [defines |-> IF value THEN definesOf \cup {"SUN"}
                    ELSE definesOf \ {"SUN"},
        needsUpdate |-> TRUE]
  ELSE [defines |-> definesOf, needsUpdate |-> FALSE]

\* The material left out of a specification.
MaterialIdle ==
  /\ sunParameter = TRUE
  /\ materialDefines = ConstructedDefines(TRUE)
  /\ materialVersion = 0
  /\ sunAssignments = <<>>

\* -------------------------------------------- the pass and its history
\* The configuration of the pass the controls ask for.
Config(props, rendering) ==
  [temporalUpscale |-> props.temporalUpscale,
   resolutionScale |-> props.resolutionScale,
   cascadeCount |-> rendering.cascadeCount]

NoConfig == [temporalUpscale |-> FALSE, resolutionScale |-> 0, cascadeCount |-> 0]

\* A history target just allocated at a resolution: nothing written.
Cleared(size) ==
  [size |-> size, producedAt |-> 0, contentSize |-> 0, config |-> NoConfig]

NoResolve ==
  [frame |-> 0, read |-> 0, written |-> 0, sampled |-> Cleared(0),
   texel |-> 0, size |-> 0, config |-> NoConfig]

setSizeKept(current, width) == current

\* CloudsResolveMaterial.setSize: the resolution texelSize is the reciprocal
\* of.
setSize(current, width) == width

WrittenSame(read) == read

\* The history target a frame writes, given the one it reads.
Written(read) == 3 - read

ReallocatedKept(targets, size) == targets

\* The history targets after a change of resolution or of configuration.
Reallocated(targets, size) == <<Cleared(size), Cleared(size)>>

\* No pass.
PassIdle ==
  /\ passFrame = 0
  /\ passConfig = NoConfig
  /\ passSize = 1
  /\ texelSizeFor = 1
  /\ historyTargets = Reallocated(<<>>, 1)
  /\ historyRead = 1
  /\ resolved = NoResolve

\* The pass receives the configuration of the controls: a configuration
\* other than the one in effect replaces it and resets the history.
PassReceives(config) ==
  IF pass = "mounted" /\ config # passConfig
  THEN /\ passConfig' = config
       /\ historyTargets' = Reallocated(historyTargets, passSize)
       /\ UNCHANGED <<passFrame, passSize, texelSizeFor, historyRead, resolved>>
  ELSE UNCHANGED passVars

\* The resolve stage of a frame: it samples the history target that is
\* bound, writes the other one, and the two exchange their roles.
PassResolve ==
  /\ passFrame' = passFrame + 1
  /\ resolved' = [frame |-> passFrame + 1, read |-> historyRead,
                  written |-> Written(historyRead),
                  sampled |-> historyTargets[historyRead],
                  texel |-> texelSizeFor, size |-> passSize,
                  config |-> passConfig]
  /\ historyTargets' =
       [historyTargets EXCEPT ![Written(historyRead)] =
          [size |-> @.size, producedAt |-> passFrame + 1,
           contentSize |-> passSize, config |-> passConfig]]
  /\ historyRead' = Written(historyRead)
  /\ UNCHANGED <<passConfig, passSize, texelSizeFor>>

\* ------------------------------------------------------ useCloudsControls
DebugControls ==
  {"showSampleCount", "showFrontDepth", "showShadowMap", "showCascades",
   "showUv", "showShadowLength", "showVelocity"}

\* The controls the effect on the render material depends on, and the ones
\* the effect on the resolve material depends on.
RenderDebugControls ==
  {"showSampleCount", "showFrontDepth", "showShadowMap", "showCascades",
   "showUv"}
ResolveDebugControls == {"showShadowLength", "showVelocity"}

\* The define each control stands for.
DebugDefine(k) ==
  CASE k = "showSampleCount" -> "DEBUG_SHOW_SAMPLE_COUNT"
    [] k = "showFrontDepth" -> "DEBUG_SHOW_FRONT_DEPTH"
    [] k = "showShadowMap" -> "DEBUG_SHOW_SHADOW_MAP"
    [] k = "showCascades" -> "DEBUG_SHOW_CASCADES"
    [] k = "showUv" -> "DEBUG_SHOW_UV"
    [] k = "showShadowLength" -> "DEBUG_SHOW_SHADOW_LENGTH"
    [] k = "showVelocity" -> "DEBUG_SHOW_VELOCITY"

\* A material as its pass constructs it.
FreshMaterial == [defines |-> {}, needsUpdate |-> FALSE]

DebugEffectSticky(material, controls, debug) ==
  [defines |-> material.defines
                 \cup {DebugDefine(k) : k \in {c \in controls : debug[c]}},
   needsUpdate |-> TRUE]

\* The body of either effect on a material of the pass: each define of the
\* controls is set or deleted, then needsUpdate is raised.
DebugEffect(material, controls, debug) ==
  [defines |-> (material.defines \ {DebugDefine(k) : k \in controls})
                 \cup {DebugDefine(k) : k \in {c \in controls : debug[c]}},
   needsUpdate |-> TRUE]

ToneMappingOfAll(debug) == \A k \in DebugControls : ~debug[k]

\* toneMapping of the value the hook returns.
ToneMapping(debug) ==
  /\ ~debug["showSampleCount"]
  /\ ~debug["showFrontDepth"]
  /\ ~debug["showUv"]
  /\ ~debug["showShadowMap"]
  /\ ~debug["showShadowLength"]

\* The first element of the value the hook returns.
ControlParams(on, debug) == [enabled |-> on, toneMapping |-> ToneMapping(debug)]

\* The schemas of the numeric controls: the initial value and the range the
\* control keeps its value in. The scattering controls are in hundredths.
ScatteringControls ==
  [scatteringCoefficient |-> [value |-> 100, min |-> 0, max |-> 500],
   absorptionCoefficient |-> [value |-> 2, min |-> 0, max |-> 500],
   scatterAnisotropy1 |-> [value |-> 70, min |-> 0, max |-> 100],
   scatterAnisotropy2 |-> [value |-> -20, min |-> -100, max |-> 0],
   scatterAnisotropyMix |-> [value |-> 50, min |-> 0, max |-> 100],
   skyIrradianceScale |-> [value |-> 250, min |-> 0, max |-> 500],
   groundIrradianceScale |-> [value |-> 300, min |-> 0, max |-> 1000],
   powderScale |-> [value |-> 80, min |-> 0, max |-> 100],
   powderExponent |-> [value |-> 15000, min |-> 100, max |-> 100000]]

CloudsRaymarchControlsUnordered ==
  [maxIterations |-> [value |-> 500, min |-> 100, max |-> 1000],
   minStepSize |-> [value |-> 50, min |-> 50, max |-> 2000],
   maxStepSize |-> [value |-> 1000, min |-> 200, max |-> 2000],
   maxRayDistance |-> [value |-> 500000, min |-> 10000, max |-> 1000000],
   maxSunIterations |-> [value |-> 3, min |-> 0, max |-> 10],
   maxGroundIterations |-> [value |-> 2, min |-> 0, max |-> 10]]

CloudsRaymarchControls ==
  [maxIterations |-> [value |-> 500, min |-> 100, max |-> 1000],
   minStepSize |-> [value |-> 50, min |-> 50, max |-> 200],
   maxStepSize |-> [value |-> 1000, min |-> 200, max |-> 2000],
   maxRayDistance |-> [value |-> 500000, min |-> 10000, max |-> 1000000],
   maxSunIterations |-> [value |-> 3, min |-> 0, max |-> 10],
   maxGroundIterations |-> [value |-> 2, min |-> 0, max |-> 10]]

ShadowRaymarchControls ==
  [maxIterations |-> [value |-> 50, min |-> 10, max |-> 100],
   minStepSize |-> [value |-> 100, min |-> 50, max |-> 200],
   maxStepSize |-> [value |-> 1000, min |-> 200, max |-> 2000],
   maxOpticalDepthTailScale |-> [value |-> 2, min |-> 0, max |-> 4]]

\* The options of the controls that offer a list, and their initial values.
MapSizeOptions == {256, 512, 1024}
CascadeCountOptions == {1, 2, 3, 4}
\* resolutionScale, in hundredths.
ResolutionScaleOptions == {25, 50, 75, 100}

CloudsRenderingDefault == [temporalUpscale |-> TRUE, resolutionScale |-> 100]

ShadowRenderingDefault ==
  [mapSize |-> 512, cascadeCount |-> 3, temporalPass |-> TRUE,
   temporalJitter |-> TRUE]

\* The values of the controls of a schema at first render.
Defaults(schema) == [k \in DOMAIN schema |-> schema[k].value]

\* The values a numeric control can be given: the ends of its range and
\* its initial value.
Assignable(control) == {control.min, control.value, control.max}

\* No uniform written yet.
NoUniforms == [k \in {} |-> 0]

\* The effect on the shadow of the pass: what lines 364-366 assign.
ShadowEffect(rendering) ==
  [cascadeCount |-> rendering.cascadeCount,
   temporalPass |-> rendering.temporalPass,
   temporalJitter |-> rendering.temporalJitter]

TemporalUpscalePropOfControl(rendering, debug) == rendering.temporalUpscale

\* temporalUpscale of the props the hook returns.
TemporalUpscaleProp(rendering, debug) ==
  rendering.temporalUpscale /\ ~debug["showShadowMap"]

\* The second element of the value the hook returns, without the props of
\* the folder clouds.
CloudsProps(rendering, shadow, debug) ==
  [temporalUpscale |-> TemporalUpscaleProp(rendering, debug),
   resolutionScale |-> rendering.resolutionScale,
   shadowMapSize |-> <<shadow.mapSize, shadow.mapSize>>]

\* The controls of these folders at first render, nothing of a pass written.
ConfigIdle ==
  /\ cloudsRendering = CloudsRenderingDefault
  /\ shadowRendering = ShadowRenderingDefault
  /\ scatteringParams = Defaults(ScatteringControls)
  /\ cloudsRaymarchParams = Defaults(CloudsRaymarchControls)
  /\ shadowRaymarchParams = Defaults(ShadowRaymarchControls)
  /\ shadowSettings = NoUniforms
  /\ renderUniforms = NoUniforms
  /\ shadowUniforms = NoUniforms
  /\ cloudsProps = CloudsProps(CloudsRenderingDefault, ShadowRenderingDefault,
                               [k \in DebugControls |-> FALSE])
  /\ controlChanges = 0

\* The hook before its component is mounted with a pass.
ControlsIdle ==
  /\ pass = "null"
  /\ enabled = TRUE
  /\ debugControls = [k \in DebugControls |-> FALSE]
  /\ renderMaterial = FreshMaterial
  /\ resolveMaterial = FreshMaterial
  /\ controlParams = ControlParams(TRUE, [k \in DebugControls |-> FALSE])

\* ------------------------------------------------------------------ inputs
Coords == (0..(Width - 1)) \X (0..(Width - 1))

Defines == [TEMPORAL_UPSCALING : BOOLEAN, SHADOW_LENGTH : BOOLEAN,
            DEBUG_SHOW_SHADOW_LENGTH : BOOLEAN]

Colors == {Color(a, b) : a \in 0..MaxColor, b \in 0..MaxColor}

Dark == Color(0, 0)
Bright == Color(MaxColor, 1)

\* A shadow length is the red channel of its buffer.
ShadowLength(a) == Color(a, 0)

Uniform(sample) == [t \in Texels |-> sample]

Checker(even, odd) ==
  [t \in Texels |-> IF (t[1] + t[2]) % 2 = 0 THEN even ELSE odd]

\* Colours that change from one column and one row to the next.
Gradient ==
  [t \in Texels |->
     Color((t[1] + 1) % (MaxColor + 1), (t[2] + 1) % 2)]

\* One sample at the texel, another everywhere else.
Spot(texel, sample, elsewhere) ==
  [t \in Texels |-> IF t = texel THEN sample ELSE elsewhere]

DepthVelocity(z, vx, vy) == [r |-> z, g |-> vx, b |-> vy]

Velocities == -MaxVelocity..MaxVelocity

\* Velocities along one axis at a time.
AxisVelocities ==
  {<<v, 0>> : v \in Velocities} \cup {<<0, v>> : v \in Velocities}

\* The depth and velocity buffers: a surface moving as a whole, a near
\* fragment moving in front of a still surface, and nothing nearer than
\* FarDepth at all.
DepthVelocityBuffers ==
  {Uniform(DepthVelocity(1, v[1], v[2])) : v \in AxisVelocities}
  \cup {Spot(<<1, 1>>, DepthVelocity(1, MaxVelocity, 0), DepthVelocity(2, 0, 0)),
        Spot(<<0, 0>>, DepthVelocity(2, 0, -MaxVelocity), DepthVelocity(2, 0, 0)),
        Uniform(DepthVelocity(FarDepth, 1, 1))}

\* The inputs of the aerial perspective effect.
EffectDefines ==
  [SUN_IRRADIANCE : BOOLEAN, SKY_IRRADIANCE : BOOLEAN,
   TRANSMITTANCE : BOOLEAN, INSCATTER : BOOLEAN,
   CORRECT_GEOMETRIC_ERROR : BOOLEAN]

Channel(k) == (k * One) \div MaxChannel

InputColors ==
  {[rgb |-> <<Channel(r), Channel(g), Channel(MaxChannel)>>, a |-> Channel(a)] :
     r \in 0..MaxChannel, g \in 0..MaxChannel, a \in 0..MaxChannel}

Depths == {0, DepthOne \div 2, DepthOne - 2, DepthOne - 1, DepthOne}

Heights == 0..MaxHeight

AltitudeRanges == {<<1, MaxHeight - 1>>, <<2, 3>>, <<3, 3>>, <<4, 2>>}

\* What GetSunAndSkyIrradiance and GetSkyRadianceToPoint return.
Atmospheres ==
  {[sunIrradiance |-> <<One, One, One>>, skyIrradiance |-> <<0, 0, 0>>,
    transmittance |-> <<One, One, One>>, inscatter |-> <<0, 0, 0>>],
   [sunIrradiance |-> <<2 * One, One, One \div 2>>,
    skyIrradiance |-> <<One \div 4, One \div 2, One>>,
    transmittance |-> <<One \div 2, One \div 4, 0>>,
    inscatter |-> <<One \div 10, One \div 5, One \div 2>>]}

Geometry(position, normal) ==
  [worldPosition |-> position, worldNormal |-> normal]

\* A point above the pole with the normal of the sphere, a point on the
\* equator of a terrain that leans, and a point below the surface.
Geometries ==
  {Geometry(<<0, 0, 12>>, <<0, 0, One>>),
   Geometry(<<10, 0, 0>>, <<0, One, 0>>),
   Geometry(<<3, -4, 6>>, <<One, 0, 0>>)}

\* A sphere, and an ellipsoid flattened at the poles.
InverseRadiiSquared == {<<1, 1, 1>>, <<1, 1, 4>>}

Radii == {10}

\* The variables of the effect before it ran.
EffectInitOver(definesSet, colors, depths, heights, ranges, scales, radii, geometries, atmospheres) ==
  /\ effectDefines \in definesSet
  /\ inputColor \in colors
  /\ depth \in depths
  /\ cameraHeight \in heights
  /\ geometricErrorAltitudeRange \in ranges
  /\ irradianceScale \in scales
  /\ inverseRadiiSquared \in radii
  /\ bottomRadius \in Radii
  /\ reconstructed \in geometries
  /\ lookup \in atmospheres
  /\ path = "none"
  /\ correction = 0
  /\ world = reconstructed
  /\ effectOutputColor = [rgb |-> <<0, 0, 0>>, a |-> 0]

\* The effect left out of a specification.
EffectIdle ==
  EffectInitOver({[SUN_IRRADIANCE |-> FALSE, SKY_IRRADIANCE |-> FALSE,
                   TRANSMITTANCE |-> FALSE, INSCATTER |-> FALSE,
                   CORRECT_GEOMETRIC_ERROR |-> FALSE]},
                 {[rgb |-> <<0, 0, 0>>, a |-> 0]}, {DepthOne}, {0},
                 {<<0, 1>>}, {One}, {<<1, 1, 1>>},
                 {Geometry(<<0, 0, 1>>, <<0, 0, One>>)},
                 {CHOOSE a \in Atmospheres : a.inscatter = <<0, 0, 0>>})

\* ------------------------------------------------------------------ actions
\* texture(historyBuffer, prevUv): where prevUv is the fragment's own
\* position the sample is what the previous frame wrote for the fragment;
\* elsewhere it is what the previous frame wrote around prevUv.
HistoryAt(previousOutput, sample, d, c, depthVelocity) ==
  PrevUv(FragUv(c), getClosestFragment(depthVelocity, FetchCoord(d, c)))
    = FragUv(c)
  => sample = previousOutput

\* One frame for the fragment, up to frame lastFrame: the frame index
\* advances, the primary stage has rendered the buffers color and shadow, the
\* shader runs on them and on the history samples, and its outputs are the
\* history of the next frame.
RenderFrame(lastFrame, color, shadow, history) ==
  /\ frame < lastFrame
  /\ HistoryAt(<<outputColor, outputShadowLength>>, history, defines, coord,
               depthVelocityBuffer)
  /\ frame' = frame + 1
  /\ colorBuffer' = color
  /\ shadowLengthBuffer' = shadow
  /\ \E out \in {main(defines, frame + 1, coord, color, shadow,
                       depthVelocityBuffer, history[1], <<history[2], 0>>,
                       varianceGamma, temporalAlpha, outputShadowLength)} :
         /\ branch' = out.branch
         /\ resolvedColor' = out.resolved
         /\ outputColor' = out.color
         /\ outputShadowLength' = out.shadowLength
         /\ historyColor' =
              IF out.branch = "history" THEN history[1] ELSE historyColor
         /\ historyShadowLength' =
              IF out.branch = "history" /\ defines.SHADOW_LENGTH
              THEN history[2] ELSE historyShadowLength
  /\ UNCHANGED <<defines, coord, depthVelocityBuffer, varianceGamma,
                 temporalAlpha>>
  /\ UNCHANGED effectVars
  /\ UNCHANGED controlVars
  /\ UNCHANGED configVars
  /\ UNCHANGED passVars
  /\ UNCHANGED materialVars

\* The state before the first frame, over the scenes of a set; histories are
\* what the history buffers hold for the fragment before the first frame.
ResolveInitOver(definesSet, coords, colorBuffers, shadowBuffers, depthVelocityBuffers, gammas, alphas, histories) ==
  /\ defines \in definesSet
  /\ frame = 0
  /\ coord \in coords
  /\ colorBuffer \in colorBuffers
  /\ shadowLengthBuffer \in shadowBuffers
  /\ depthVelocityBuffer \in depthVelocityBuffers
  /\ varianceGamma \in gammas
  /\ temporalAlpha \in alphas
  /\ historyColor = Dark
  /\ historyShadowLength = 0
  /\ branch = "none"
  /\ resolvedColor = Dark
  /\ \E history \in histories :
       /\ outputColor = history[1]
       /\ outputShadowLength = history[2]

\* The resolve shader left out of a specification.
ResolveIdle ==
  ResolveInitOver({[TEMPORAL_UPSCALING |-> FALSE, SHADOW_LENGTH |-> FALSE,
                    DEBUG_SHOW_SHADOW_LENGTH |-> FALSE]},
                  {<<0, 0>>}, {Uniform(Dark)}, {Uniform(Dark)},
                  {Uniform(DepthVelocity(1, 0, 0))}, {DefaultVarianceGamma},
                  {DefaultTemporalAlpha}, {<<Dark, 0>>})

\* The state before the first frame of the resolve shader alone.
InitOver(definesSet, coords, colorBuffers, shadowBuffers, depthVelocityBuffers, gammas, alphas, histories) ==
  /\ ResolveInitOver(definesSet, coords, colorBuffers, shadowBuffers,
                     depthVelocityBuffers, gammas, alphas, histories)
  /\ EffectIdle
  /\ ControlsIdle
  /\ ConfigIdle
  /\ PassIdle
  /\ MaterialIdle

\* A control of the folder debug is toggled: the component renders again,
\* the hook returns its value, and the effects whose dependencies changed run.
ToggleDebug(k) ==
  /\ debugControls' = [debugControls EXCEPT ![k] = ~@]
  /\ controlParams' = ControlParams(enabled, debugControls')
  /\ renderMaterial' =
       IF pass = "mounted" /\ k \in RenderDebugControls
       THEN DebugEffect(renderMaterial, RenderDebugControls, debugControls')
       ELSE renderMaterial
  /\ resolveMaterial' =
       IF pass = "mounted" /\ k \in ResolveDebugControls
       THEN DebugEffect(resolveMaterial, ResolveDebugControls, debugControls')
       ELSE resolveMaterial
  /\ cloudsProps' = CloudsProps(cloudsRendering, shadowRendering, debugControls')
  /\ PassReceives(Config(cloudsProps', shadowRendering))
  /\ UNCHANGED <<pass, enabled>>
  /\ UNCHANGED <<cloudsRendering, shadowRendering, scatteringParams,
                 cloudsRaymarchParams, shadowRaymarchParams, shadowSettings,
                 renderUniforms, shadowUniforms, controlChanges>>

\* The control enabled is toggled: no effect depends on it.
ToggleEnabled ==
  /\ enabled' = ~enabled
  /\ controlParams' = ControlParams(enabled', debugControls)
  /\ UNCHANGED <<pass, debugControls, renderMaterial, resolveMaterial>>
  /\ UNCHANGED configVars
  /\ UNCHANGED passVars

\* The pass of the component is created: both effects depend on pass and
\* run on its new materials.
MountPass ==
  /\ pass = "null"
  /\ pass' = "mounted"
  /\ controlParams' = ControlParams(enabled, debugControls)
  /\ renderMaterial' =
       DebugEffect(FreshMaterial, RenderDebugControls, debugControls)
  /\ resolveMaterial' =
       DebugEffect(FreshMaterial, ResolveDebugControls, debugControls)
  /\ shadowSettings' = ShadowEffect(shadowRendering)
  /\ renderUniforms' = NoUniforms
  /\ shadowUniforms' = NoUniforms
  /\ passConfig' = Config(cloudsProps, shadowRendering)
  /\ historyTargets' = Reallocated(historyTargets, passSize)
  /\ historyRead' = 1
  /\ resolved' = NoResolve
  /\ UNCHANGED <<passFrame, passSize, texelSizeFor>>
  /\ UNCHANGED <<enabled, debugControls>>
  /\ UNCHANGED <<cloudsRendering, shadowRendering, scatteringParams,
                 cloudsRaymarchParams, shadowRaymarchParams, cloudsProps,
                 controlChanges>>

\* The pass is gone: the effects return at once.
UnmountPass ==
  /\ pass = "mounted"
  /\ pass' = "null"
  /\ controlParams' = ControlParams(enabled, debugControls)
  /\ renderMaterial' = FreshMaterial
  /\ resolveMaterial' = FreshMaterial
  /\ shadowSettings' = NoUniforms
  /\ renderUniforms' = NoUniforms
  /\ shadowUniforms' = NoUniforms
  /\ passConfig' = NoConfig
  /\ historyTargets' = Reallocated(historyTargets, passSize)
  /\ historyRead' = 1
  /\ resolved' = NoResolve
  /\ UNCHANGED <<passFrame, passSize, texelSizeFor>>
  /\ UNCHANGED <<enabled, debugControls>>
  /\ UNCHANGED <<cloudsRendering, shadowRendering, scatteringParams,
                 cloudsRaymarchParams, shadowRaymarchParams, cloudsProps,
                 controlChanges>>

\* A control of the folder clouds raymarch is given a value of its range;
\* no effect depends on it.
SetCloudsRaymarch(k, v) ==
  /\ controlChanges < MaxChanges
  /\ v \in Assignable(CloudsRaymarchControls[k])
  /\ v # cloudsRaymarchParams[k]
  /\ cloudsRaymarchParams' = [cloudsRaymarchParams EXCEPT ![k] = v]
  /\ controlChanges' = controlChanges + 1
  /\ UNCHANGED <<cloudsRendering, shadowRendering, scatteringParams,
                 shadowRaymarchParams, shadowSettings, renderUniforms,
                 shadowUniforms, cloudsProps>>
  /\ UNCHANGED controlVars
  /\ UNCHANGED passVars

\* A control of the folder shadow raymarch is given a value of its range.
SetShadowRaymarch(k, v) ==
  /\ controlChanges < MaxChanges
  /\ v \in Assignable(ShadowRaymarchControls[k])
  /\ v # shadowRaymarchParams[k]
  /\ shadowRaymarchParams' = [shadowRaymarchParams EXCEPT ![k] = v]
  /\ controlChanges' = controlChanges + 1
  /\ UNCHANGED <<cloudsRendering, shadowRendering, scatteringParams,
                 cloudsRaymarchParams, shadowSettings, renderUniforms,
                 shadowUniforms, cloudsProps>>
  /\ UNCHANGED controlVars
  /\ UNCHANGED passVars

\* A control of the folder shadow rendering is given one of its options:
\* the hook returns its props and the effect of lines 362-368 runs when one
\* of its dependencies changed and there is a pass.
SetShadowRendering(k, v) ==
  /\ controlChanges < MaxChanges
  /\ v \in (CASE k = "mapSize" -> MapSizeOptions
              [] k = "cascadeCount" -> CascadeCountOptions
              [] OTHER -> BOOLEAN)
  /\ v # shadowRendering[k]
  /\ shadowRendering' = [shadowRendering EXCEPT ![k] = v]
  /\ controlChanges' = controlChanges + 1
  /\ cloudsProps' = CloudsProps(cloudsRendering, shadowRendering', debugControls)
  /\ shadowSettings' =
       IF pass = "mounted" /\ k # "mapSize"
       THEN ShadowEffect(shadowRendering') ELSE shadowSettings
  /\ PassReceives(Config(cloudsProps', shadowRendering'))
  /\ UNCHANGED <<cloudsRendering, scatteringParams, cloudsRaymarchParams,
                 shadowRaymarchParams, renderUniforms, shadowUniforms>>
  /\ UNCHANGED controlVars

\* A control of the folder clouds rendering is given a value: the hook
\* returns its props.
SetCloudsRendering(k, v) ==
  /\ controlChanges < MaxChanges
  /\ v \in (CASE k = "resolutionScale" -> ResolutionScaleOptions
              [] OTHER -> BOOLEAN)
  /\ v # cloudsRendering[k]
  /\ cloudsRendering' = [cloudsRendering EXCEPT ![k] = v]
  /\ controlChanges' = controlChanges + 1
  /\ cloudsProps' = CloudsProps(cloudsRendering', shadowRendering, debugControls)
  /\ PassReceives(Config(cloudsProps', shadowRendering))
  /\ UNCHANGED <<shadowRendering, scatteringParams, cloudsRaymarchParams,
                 shadowRaymarchParams, shadowSettings, renderUniforms,
                 shadowUniforms>>
  /\ UNCHANGED controlVars

\* The output changes its resolution: the pass sets the size of the resolve
\* material and allocates its history targets anew.
Resize(width) ==
  /\ pass = "mounted"
  /\ width # passSize
  /\ passSize' = width
  /\ texelSizeFor' = setSize(texelSizeFor, width)
  /\ historyTargets' = Reallocated(historyTargets, width)
  /\ UNCHANGED <<passFrame, passConfig, historyRead, resolved>>
  /\ UNCHANGED controlVars
  /\ UNCHANGED configVars

\* A frame: the callback of useFrame writes, with a pass, every value of
\* the three folders to the uniform of its name; then the pass renders.
Frame ==
  /\ pass = "mounted"
  /\ passFrame < MaxPassFrames
  /\ PassResolve
  /\ renderUniforms' = cloudsRaymarchParams @@ scatteringParams @@ renderUniforms
  /\ shadowUniforms' = shadowRaymarchParams @@ shadowUniforms
  /\ UNCHANGED <<cloudsRendering, shadowRendering, scatteringParams,
                 cloudsRaymarchParams, shadowRaymarchParams, shadowSettings,
                 cloudsProps, controlChanges>>
  /\ UNCHANGED controlVars

\* ---------------------------------------------------------- specifications
SceneColors == {Checker(Dark, Bright), Spot(<<0, 0>>, Bright, Dark)}
SceneShadows == {Checker(ShadowLength(MaxColor), ShadowLength(0))}
SceneHistories == {<<Dark, ColorScale>>, <<Bright, 0>>}

\* The frames of a cycle of the checkerboard and more, for a fragment anywhere
\* in the output, in both modes, over a still or a moving scene.
Init ==
  InitOver({d \in Defines : ~d.DEBUG_SHOW_SHADOW_LENGTH},
           Coords, SceneColors, SceneShadows,
           {Uniform(DepthVelocity(1, 0, 0)), Uniform(DepthVelocity(1, 1, 0))},
           {MaxGamma}, {AlphaOne \div 2}, SceneHistories)

Resolve ==
  \E color \in SceneColors, shadow \in SceneShadows,
     history \in SceneHistories \cup {<<outputColor, outputShadowLength>>} :
    RenderFrame(MaxFrame, color, shadow, history)

Next == Resolve

Spec == Init /\ [][Next]_vars

\* The first frames of every configuration of the shader, for a fragment
\* anywhere in the output, over every motion of the scene.
ReprojectFrames == 2

InitReproject ==
  InitOver(Defines, Coords, {Gradient}, SceneShadows,
           DepthVelocityBuffers, {0, MaxGamma}, {1, AlphaOne}, SceneHistories)

ResolveReproject ==
  \E history \in SceneHistories \cup {<<outputColor, outputShadowLength>>} :
    RenderFrame(ReprojectFrames, colorBuffer, shadowLengthBuffer, history)

NextReproject == ResolveReproject

SpecReproject == InitReproject /\ [][NextReproject]_vars

\* The first frames of a fragment over every window of colours around it,
\* every history sample, every gamma and a range of alphas.
ClipFrames == 1
ClipCoord == <<1, 1>>

\* The buffer with the colours before, current and after in the window
\* around the texel the fragment at ClipCoord fetches.
Around(d, before, current, after) ==
  [t \in Texels |->
     IF t = FetchCoord(d, ClipCoord) THEN current
     ELSE IF t[1] < FetchCoord(d, ClipCoord)[1] THEN before ELSE after]

Alphas == {0, 1, AlphaOne \div 2, AlphaOne}

ClipDefines ==
  {d \in Defines : ~d.SHADOW_LENGTH /\ ~d.DEBUG_SHOW_SHADOW_LENGTH}

InitClip ==
  /\ \E d \in ClipDefines :
       InitOver({d}, {ClipCoord},
                {Around(d, before, current, after) :
                   before \in Colors, current \in Colors,
                   after \in {Dark, Bright}},
                SceneShadows, {Uniform(DepthVelocity(1, 0, 0))},
                0..MaxGamma, Alphas, Colors \X {0})
  /\ defines.TEMPORAL_UPSCALING => temporalAlpha = 1
  /\ ~defines.TEMPORAL_UPSCALING => varianceGamma = 1

ResolveClip ==
  RenderFrame(ClipFrames, colorBuffer, shadowLengthBuffer,
              <<outputColor, outputShadowLength>>)

NextClip == ResolveClip

SpecClip == InitClip /\ [][NextClip]_vars

\* A still scene: the buffers of the primary stage never change, nothing
\* moves, and the history buffers start with anything.
StaticAlphas == {1, AlphaOne}

InitStatic ==
  InitOver(ClipDefines, Coords,
           {Checker(Dark, Bright), Spot(<<0, 0>>, Bright, Dark)},
           SceneShadows, {Uniform(DepthVelocity(1, 0, 0))},
           {1, MaxGamma}, StaticAlphas, Colors \X {0})

ResolveStatic ==
  RenderFrame(MaxFrame, colorBuffer, shadowLengthBuffer,
              <<outputColor, outputShadowLength>>)

NextStatic == ResolveStatic

SpecStatic == InitStatic /\ [][NextStatic]_vars

\* The effect over every combination of its toggles, at depths up to the far
\* plane, over colours of any coverage and two atmospheres.
EffectScales == {One, 2 * One}

InitAerial ==
  /\ ResolveIdle
  /\ ControlsIdle
  /\ ConfigIdle
  /\ PassIdle
  /\ MaterialIdle
  /\ EffectInitOver(EffectDefines, InputColors, Depths, {0, MaxHeight},
                    {<<1, MaxHeight - 1>>}, EffectScales, {<<1, 1, 1>>},
                    {Geometry(<<0, 0, 12>>, <<0, One, 0>>)}, Atmospheres)

\* mainImage runs once for the fragment.
MainImage ==
  /\ path = "none"
  /\ \E out \in mainImage(effectDefines, inputColor, depth, cameraHeight,
                          geometricErrorAltitudeRange, irradianceScale,
                          inverseRadiiSquared, bottomRadius, reconstructed,
                          lookup, [t |-> correction, geometry |-> world]) :
       /\ path' = out.path
       /\ correction' = out.t
       /\ world' = out.geometry
       /\ effectOutputColor' = out.outputColor
  /\ UNCHANGED <<effectDefines, inputColor, depth, cameraHeight,
                 geometricErrorAltitudeRange, irradianceScale,
                 inverseRadiiSquared, bottomRadius, reconstructed, lookup>>
  /\ UNCHANGED resolveVars
  /\ UNCHANGED controlVars
  /\ UNCHANGED configVars
  /\ UNCHANGED passVars
  /\ UNCHANGED materialVars

NextAerial == MainImage

SpecAerial == InitAerial /\ [][NextAerial]_vars

\* The effect at every camera height, over altitude ranges in and out of
\* order, with and without the correction.
HorizonDefines ==
  {d \in EffectDefines :
     d.SUN_IRRADIANCE /\ ~d.SKY_IRRADIANCE /\ d.TRANSMITTANCE /\ d.INSCATTER}

InitHorizon ==
  /\ ResolveIdle
  /\ ControlsIdle
  /\ ConfigIdle
  /\ PassIdle
  /\ MaterialIdle
  /\ EffectInitOver(HorizonDefines,
                    {[rgb |-> <<One, One, One>>, a |-> One]},
                    {DepthOne \div 2, DepthOne}, Heights, AltitudeRanges,
                    {One}, InverseRadiiSquared, Geometries, Atmospheres)

NextHorizon == MainImage

SpecHorizon == InitHorizon /\ [][NextHorizon]_vars

\* The component of the story under every sequence of toggles of its debug
\* controls, with and without a pass.
InitDebug ==
  /\ ResolveIdle
  /\ EffectIdle
  /\ ControlsIdle
  /\ ConfigIdle
  /\ PassIdle
  /\ MaterialIdle

NextDebug ==
  \/ \E k \in DebugControls : ToggleDebug(k) /\ UNCHANGED <<resolveVars, effectVars, materialVars>>
  \/ ToggleEnabled /\ UNCHANGED <<resolveVars, effectVars, materialVars>>
  \/ MountPass /\ UNCHANGED <<resolveVars, effectVars, materialVars>>
  \/ UnmountPass /\ UNCHANGED <<resolveVars, effectVars, materialVars>>

SpecDebug == InitDebug /\ [][NextDebug]_vars

\* The component under changes of the controls of the folders clouds
\* raymarch, shadow raymarch and shadow rendering, with frames in between.
InitConfig ==
  /\ ResolveIdle
  /\ EffectIdle
  /\ ControlsIdle
  /\ ConfigIdle
  /\ PassIdle
  /\ MaterialIdle

NextConfig ==
  \/ \E k \in DOMAIN CloudsRaymarchControls,
        v \in UNION {Assignable(CloudsRaymarchControls[c]) :
                       c \in DOMAIN CloudsRaymarchControls} :
       SetCloudsRaymarch(k, v) /\ UNCHANGED <<resolveVars, effectVars, materialVars>>
  \/ \E k \in DOMAIN ShadowRaymarchControls,
        v \in UNION {Assignable(ShadowRaymarchControls[c]) :
                       c \in DOMAIN ShadowRaymarchControls} :
       SetShadowRaymarch(k, v) /\ UNCHANGED <<resolveVars, effectVars, materialVars>>
  \/ \E v \in MapSizeOptions :
       SetShadowRendering("mapSize", v) /\ UNCHANGED <<resolveVars, effectVars, materialVars>>
  \/ \E v \in CascadeCountOptions :
       SetShadowRendering("cascadeCount", v)
         /\ UNCHANGED <<resolveVars, effectVars, materialVars>>
  \/ \E k \in {"temporalPass", "temporalJitter"}, v \in BOOLEAN :
       SetShadowRendering(k, v) /\ UNCHANGED <<resolveVars, effectVars, materialVars>>
  \/ Frame /\ UNCHANGED <<resolveVars, effectVars, materialVars>>
  \/ MountPass /\ UNCHANGED <<resolveVars, effectVars, materialVars>>

SpecConfig == InitConfig /\ [][NextConfig]_vars

\* The pass under changes of the controls that change its configuration,
\* changes of the output resolution, and frames.
Sizes == 1..MaxSize

InitPass ==
  /\ ResolveIdle
  /\ EffectIdle
  /\ ControlsIdle
  /\ ConfigIdle
  /\ PassIdle
  /\ MaterialIdle

NextPass ==
  \/ MountPass /\ UNCHANGED <<resolveVars, effectVars, materialVars>>
  \/ UnmountPass /\ UNCHANGED <<resolveVars, effectVars, materialVars>>
  \/ \E v \in BOOLEAN :
       SetCloudsRendering("temporalUpscale", v)
         /\ UNCHANGED <<resolveVars, effectVars, materialVars>>
  \/ \E v \in ResolutionScaleOptions :
       SetCloudsRendering("resolutionScale", v)
         /\ UNCHANGED <<resolveVars, effectVars, materialVars>>
  \/ \E v \in CascadeCountOptions :
       SetShadowRendering("cascadeCount", v)
         /\ UNCHANGED <<resolveVars, effectVars, materialVars>>
  \/ ToggleDebug("showShadowMap") /\ UNCHANGED <<resolveVars, effectVars, materialVars>>
  \/ \E width \in Sizes : Resize(width) /\ UNCHANGED <<resolveVars, effectVars, materialVars>>
  \/ Frame /\ UNCHANGED <<resolveVars, effectVars, materialVars>>

SpecPass == InitPass /\ [][NextPass]_vars

\* A frame of a fragment over depth and velocity buffers with one or two
\* nearest texels anywhere around it, each texel with a velocity of its own,
\* in front of a surface or of nothing nearer than FarDepth.
ClosestFrames == 1

VelocityAt(t) == <<t[1] % (MaxVelocity + 1), -(t[2] % (MaxVelocity + 1))>>

Nearest(near, tie, background) ==
  [t \in Texels |->
     IF t \in {near, tie}
     THEN DepthVelocity(1, VelocityAt(t)[1], VelocityAt(t)[2])
     ELSE DepthVelocity(background, 1, -1)]

ClosestBuffers ==
  {Nearest(near, tie, background) :
     near \in (-1..2) \X (-1..2), tie \in (-1..2) \X (-1..2),
     background \in {2, FarDepth}}

InitClosest ==
  InitOver({d \in Defines : ~d.SHADOW_LENGTH /\ ~d.DEBUG_SHOW_SHADOW_LENGTH},
           Coords, {Gradient}, SceneShadows, ClosestBuffers,
           {MaxGamma}, {1}, {<<Dark, 0>>})

ResolveClosest ==
  \E history \in SceneHistories \cup {<<outputColor, outputShadowLength>>} :
    RenderFrame(ClosestFrames, colorBuffer, shadowLengthBuffer, history)

NextClosest == ResolveClosest

SpecClosest == InitClosest /\ [][NextClosest]_vars

\* An AtmosphereMaterial constructed with either value of the parameter sun,
\* under every sequence of assignments to sun.
InitSun ==
  /\ ResolveIdle
  /\ EffectIdle
  /\ ControlsIdle
  /\ ConfigIdle
  /\ PassIdle
  /\ sunParameter \in BOOLEAN
  /\ materialDefines = ConstructedDefines(sunParameter)
  /\ materialVersion = 0
  /\ sunAssignments = <<>>

\* material.sun = value
SetSun(value) ==
  /\ Len(sunAssignments) < MaxAssignments
  /\ sunAssignments' = Append(sunAssignments, value)
  /\ \E out \in {SunSet(materialDefines, value)} :
       /\ materialDefines' = out.defines
       /\ materialVersion' =
            IF out.needsUpdate THEN materialVersion + 1 ELSE materialVersion
  /\ UNCHANGED sunParameter
  /\ UNCHANGED <<resolveVars, effectVars, controlVars, configVars, passVars>>

NextSun == \E value \in BOOLEAN : SetSun(value)

SpecSun == InitSun /\ [][NextSun]_vars

\* ================================================================== claims
SubPixels == (0..3) \X (0..3)
Priorities == 0..15

\* What the last invocation read and computed, restated from the state.
Rendered == branch # "none"
Current == defines.TEMPORAL_UPSCALING /\ IsCurrentFrame(coord, frame)
FetchedCoord == FetchCoord(defines, coord)
CurrentColor == colorBuffer[FetchedCoord]
CurrentShadowLength == shadowLengthBuffer[FetchedCoord][1]
ReprojectedUv ==
  PrevUv(FragUv(coord), getClosestFragment(depthVelocityBuffer, FetchedCoord))
DebugView == defines.SHADOW_LENGTH /\ defines.DEBUG_SHOW_SHADOW_LENGTH

\* C1: in the 16 frames that start with the frame index of any reachable
\* state, every sub-pixel of a 4x4 block passes the test
\* bayerIndices[x % 4][y % 4] == frame % 16 in exactly one frame; and the
\* fragment left through the branch of the current frame exactly when its
\* sub-pixel passed the test.
C1_CheckerboardCoverage ==
  /\ \A p \in SubPixels :
       Cardinality({k \in 0..15 : IsCurrentFrame(p, frame + k)}) = 1
  /\ Rendered /\ defines.TEMPORAL_UPSCALING =>
       (branch = "current") = (BayerValue(coord) = frame % 16)

C1_Witness ==
  /\ defines.TEMPORAL_UPSCALING
  /\ branch = "current"
  /\ frame > 16

\* C2: bayerIndices maps the 16 sub-pixels one-to-one onto 0..15, and in the
\* frame of every reachable state exactly one sub-pixel of a block is current;
\* the fragment at that sub-pixel outputs the fresh sample.
C2_PriorityBijection ==
  /\ \A p \in SubPixels : BayerValue(p) \in Priorities
  /\ \A v \in Priorities :
       Cardinality({p \in SubPixels : BayerValue(p) = v}) = 1
  /\ Cardinality({p \in SubPixels : IsCurrentFrame(p, frame)}) = 1
  /\ Rendered /\ defines.TEMPORAL_UPSCALING /\ BayerValue(coord) = frame % 16
       => resolvedColor = colorBuffer[SubCoord(coord)]

C2_Witness ==
  /\ defines.TEMPORAL_UPSCALING
  /\ branch = "current"
  /\ BayerValue(coord) = 15
  /\ resolvedColor = Bright
  /\ historyColor # Bright

\* C3: for a fragment that is not current, a reprojected UV with a coordinate
\* below 0 or above 1 gives the raw current sample in the colour and in the
\* shadow length, whatever the history holds; a reprojected UV within [0, 1],
\* the bounds 0 and 1 included, gives the branch that samples the history.
\* The fragment colour is the colour so resolved unless the shadow length
\* view replaces it.
C3_DisocclusionRejection ==
  Rendered /\ ~Current =>
    /\ (ReprojectedUv[1] < 0 \/ ReprojectedUv[1] > UvOne
          \/ ReprojectedUv[2] < 0 \/ ReprojectedUv[2] > UvOne) =>
         /\ branch = "rejected"
         /\ resolvedColor = CurrentColor
         /\ defines.SHADOW_LENGTH => outputShadowLength = CurrentShadowLength
         /\ ~DebugView => outputColor = CurrentColor
    /\ (ReprojectedUv[1] \in 0..UvOne /\ ReprojectedUv[2] \in 0..UvOne) =>
         branch = "history"

\* Rejected one step below 0, with a history that differs from the sample.
C3_Witness ==
  /\ branch = "rejected"
  /\ ReprojectedUv[1] = -1
  /\ outputColor = CurrentColor
  /\ historyColor # CurrentColor
  /\ frame = 2

\* Accepted on the boundary itself.
C3_WitnessBoundary ==
  /\ branch = "history"
  /\ ReprojectedUv[1] = 0 \/ ReprojectedUv[2] = UvOne

\* C4: the colour a fragment of the upscaling mode resolves from the history
\* lies, in every channel, within gamma times the variance of the mean of
\* the window of the current buffer around its sample, for every gamma >= 0;
\* so does the clipped history of the antialiasing mode, which is its output
\* for temporalAlpha = 0, with the default gamma.
InBox(color, gamma) ==
  LET w == Window(colorBuffer, FetchedCoord, CurrentColor)
  IN  \A ch \in Channels :
        /\ color[ch] >= Mean(w, ch) - gamma * Variance(w, ch)
        /\ color[ch] <= Mean(w, ch) + gamma * Variance(w, ch)

Epsilon == 1

Near(a, b, distance) == \A ch \in Channels : Abs(a[ch] - b[ch]) <= distance

ConvergedAsStated ==
  \/ defines.TEMPORAL_UPSCALING /\ frame >= 16
  \/ ~defines.TEMPORAL_UPSCALING /\ temporalAlpha = DefaultTemporalAlpha
       /\ frame >= 4

Shaded == path = "shaded"
Corrected == Shaded /\ effectDefines.CORRECT_GEOMETRIC_ERROR
MinHeight == geometricErrorAltitudeRange[1]
MaxHeightOfRange == geometricErrorAltitudeRange[2]

\* C6: a pixel whose raw depth is at the far clip plane, depth >= 1 - 1e-7
\* and depth = 1 among them, leaves mainImage with the colour it entered with
\* in all four channels, whatever the toggles and whatever the atmosphere
\* would have returned.
C6_FarPlaneIdentity ==
  (path # "none" /\ depth >= DepthOne - 1)
    => /\ path = "far"
       /\ effectOutputColor = inputColor

\* A pixel at depth 1 - 1e-7 with every toggle on, whose colour the shaded
\* path would have changed, has passed through.
C6_Witness ==
  /\ path = "far"
  /\ depth = DepthOne - 1
  /\ \A k \in DOMAIN effectDefines : effectDefines[k]
  /\ Shade(effectDefines, inputColor, irradianceScale, lookup) # inputColor
  /\ effectOutputColor = inputColor

\* C7: on the far-plane path and on the shaded path alike, at every depth and
\* under every combination of toggles, the output alpha is the input alpha.
C7_AlphaPreserved ==
  path # "none" => effectOutputColor.a = inputColor.a

\* A pixel of partial coverage has been shaded to another colour.
C7_Witness ==
  /\ Shaded
  /\ inputColor.a # 0
  /\ inputColor.a # One
  /\ effectOutputColor.rgb # inputColor.rgb
  /\ effectOutputColor.a = inputColor.a

\* C8: for minHeight < maxHeight the factor t of correctGeometricError is 0
\* at and below minHeight, 1 at and above maxHeight and no smaller than at
\* any lower camera height; with t = 0 worldPosition and worldNormal are left
\* as reconstructed, with t = 1 they are the point and the normal of the
\* ellipsoid.
C8_HorizonCorrection ==
  Corrected =>
    /\ MinHeight < MaxHeightOfRange =>
         /\ cameraHeight <= MinHeight => correction = 0
         /\ cameraHeight >= MaxHeightOfRange => correction = One
         /\ correction \in 0..One
         /\ \A lower \in Heights :
              lower <= cameraHeight =>
                smoothstep(MinHeight, MaxHeightOfRange, lower) <= correction
    /\ correction = 0 => world = reconstructed
    /\ correction = One =>
         LET normal == EllipsoidNormal(inverseRadiiSquared,
                                       reconstructed.worldPosition)
         IN  world = Geometry(EllipsoidPosition(bottomRadius, normal), normal)

\* The camera is between the heights of the range and the geometry is
\* between the reconstructed one and the ellipsoid.
C8_Witness ==
  /\ Corrected
  /\ MinHeight < cameraHeight
  /\ cameraHeight < MaxHeightOfRange
  /\ correction \in 1..(One - 1)
  /\ world # reconstructed
  /\ world.worldNormal # EllipsoidNormal(inverseRadiiSquared,
                                         reconstructed.worldPosition)

\* C9: in the antialiasing mode, with the reprojected UV within [0, 1], the
\* colour is lerp(clipped history, current, temporalAlpha): the current
\* sample for temporalAlpha = 1, the clipped history for temporalAlpha = 0.
Lerp(a, b, t) == a + ((b - a) * t) \div AlphaOne

C9_AntialiasResult ==
  Rendered /\ ~defines.TEMPORAL_UPSCALING /\ ~Rejected(ReprojectedUv) =>
    LET clipped == varianceClipping(colorBuffer, coord, colorBuffer[coord],
                                    historyColor, DefaultVarianceGamma)
    IN  /\ \A ch \in Channels :
             resolvedColor[ch] =
               Lerp(clipped[ch], colorBuffer[coord][ch], temporalAlpha)
        /\ temporalAlpha = AlphaOne => resolvedColor = colorBuffer[coord]
        /\ temporalAlpha = 0 => resolvedColor = clipped
        /\ ~DebugView => outputColor = resolvedColor

\* A blend strictly between a clipped history and the current sample.
C9_Witness ==
  /\ ~defines.TEMPORAL_UPSCALING
  /\ branch = "history"
  /\ temporalAlpha = 1
  /\ resolvedColor # colorBuffer[coord]
  /\ resolvedColor # historyColor
  /\ resolvedColor #
       varianceClipping(colorBuffer, coord, colorBuffer[coord], historyColor,
                        DefaultVarianceGamma)
  /\ historyColor #
       varianceClipping(colorBuffer, coord, colorBuffer[coord], historyColor,
                        DefaultVarianceGamma)

\* C10: in the upscaling mode the fragment whose sub-pixel is current outputs
\* the raw sample of the texel coord / 4 of the colour buffer; any other
\* fragment whose reprojected UV is accepted outputs the history sample
\* clipped with varianceGamma, without a blend by temporalAlpha.
C10_UpscaleResult ==
  Rendered /\ defines.TEMPORAL_UPSCALING =>
    LET texel == <<coord[1] \div 4, coord[2] \div 4>>
    IN  /\ BayerValue(coord) = frame % 16 =>
             /\ branch = "current"
             /\ resolvedColor = colorBuffer[texel]
             /\ ~DebugView => outputColor = colorBuffer[texel]
        /\ BayerValue(coord) # frame % 16 /\ ~Rejected(ReprojectedUv) =>
             /\ branch = "history"
             /\ resolvedColor =
                  varianceClipping(colorBuffer, texel, colorBuffer[texel],
                                   historyColor, varianceGamma)
             /\ ~DebugView => outputColor = resolvedColor

\* A current fragment over a moving scene, its history unlike its sample.
C10_Witness ==
  /\ defines.TEMPORAL_UPSCALING
  /\ branch = "current"
  /\ coord # <<coord[1] \div 4, coord[2] \div 4>>
  /\ colorBuffer[coord] # colorBuffer[<<coord[1] \div 4, coord[2] \div 4>>]
  /\ ReprojectedUv # FragUv(coord)
  /\ temporalAlpha = 1
  /\ outputColor = CurrentColor

\* The debug modes that are on.
ActiveDebugModes == {k \in DebugControls : debugControls[k]}
DebugDefines == renderMaterial.defines \cup resolveMaterial.defines

\* C11 as stated: the returned toneMapping is false whenever any of the
\* seven debug modes is on, and true only when none is.
C11_ToneMappingAsStated ==
  controlParams.toneMapping = (ActiveDebugModes = {})

\* C11, amended: the returned toneMapping is false exactly when one of
\* showSampleCount, showFrontDepth, showUv, showShadowMap or showShadowLength
\* is on; showCascades and showVelocity leave it as it is.
C11_ToneMappingOfFive ==
  controlParams.toneMapping =
    (ActiveDebugModes \subseteq {"showCascades", "showVelocity"})

\* Both of the modes that keep tone mapping are on, and tone mapping is on.
C11_Witness ==
  /\ pass = "mounted"
  /\ ActiveDebugModes = {"showCascades", "showVelocity"}
  /\ controlParams.toneMapping

\* C12 as stated: at most one DEBUG_SHOW_* define is set on the two
\* materials at any time.
C12_ExclusiveAsStated == Cardinality(DebugDefines) <= 1

\* C12, amended: while the pass is mounted, each DEBUG_SHOW_* define is set
\* on its material exactly when its control is on, whatever the other
\* controls are; the five of the render material are on the render
\* material, the two of the resolve material on the resolve material.
C12_DefinesFollowControls ==
  pass = "mounted" =>
    /\ renderMaterial.defines =
         {DebugDefine(k) : k \in ActiveDebugModes \cap RenderDebugControls}
    /\ resolveMaterial.defines =
         {DebugDefine(k) : k \in ActiveDebugModes \cap ResolveDebugControls}

\* All seven defines are set at once, one control having been switched off
\* and on again.
C12_Witness ==
  /\ pass = "mounted"
  /\ Cardinality(DebugDefines) = 7
  /\ renderMaterial.needsUpdate
  /\ resolveMaterial.needsUpdate

\* A set of raymarch uniforms is well formed: where present, iterations and
\* the ray distance are positive, the iterations toward the sun and the
\* ground are not negative, and the steps are ordered.
WellFormed(uniforms) ==
  /\ "maxIterations" \in DOMAIN uniforms => uniforms.maxIterations > 0
  /\ "minStepSize" \in DOMAIN uniforms =>
       uniforms.minStepSize <= uniforms.maxStepSize
  /\ "maxRayDistance" \in DOMAIN uniforms => uniforms.maxRayDistance > 0
  /\ "maxSunIterations" \in DOMAIN uniforms => uniforms.maxSunIterations >= 0
  /\ "maxGroundIterations" \in DOMAIN uniforms =>
       uniforms.maxGroundIterations >= 0

FrameCopied ==
  /\ \A k \in DOMAIN cloudsRaymarchParams :
       k \in DOMAIN renderUniforms /\ renderUniforms[k] = cloudsRaymarchParams[k]
  /\ \A k \in DOMAIN shadowRaymarchParams :
       k \in DOMAIN shadowUniforms /\ shadowUniforms[k] = shadowRaymarchParams[k]

\* C16: whatever values the controls of the folders clouds raymarch, shadow
\* raymarch and shadow rendering are given, the uniforms a frame has written
\* and the cascade count assigned to the pass are well formed: cascadeCount
\* in 1..4, minStepSize <= maxStepSize, maxIterations > 0, maxRayDistance > 0,
\* maxSunIterations >= 0, maxGroundIterations >= 0; and a frame leaves in
\* each uniform the very value of its control.
C16_ConfigurationWellFormed ==
  /\ [](/\ WellFormed(renderUniforms)
        /\ WellFormed(shadowUniforms)
        /\ WellFormed(cloudsRaymarchParams)
        /\ WellFormed(shadowRaymarchParams)
        /\ shadowRendering.cascadeCount \in 1..4
        /\ "cascadeCount" \in DOMAIN shadowSettings =>
             shadowSettings.cascadeCount \in 1..4)
  /\ [][(renderUniforms' # renderUniforms \/ shadowUniforms' # shadowUniforms)
          /\ pass' = "mounted" /\ pass = "mounted" => FrameCopied']_vars

\* The steps of the clouds raymarch meet, at the end the two ranges share,
\* and a frame has written them.
C16_Witness ==
  /\ pass = "mounted"
  /\ "minStepSize" \in DOMAIN renderUniforms
  /\ renderUniforms.minStepSize = renderUniforms.maxStepSize
  /\ renderUniforms.minStepSize # CloudsRaymarchControls.minStepSize.value

\* The pass has resolved a frame since it was created.
PassResolved == pass = "mounted" /\ resolved.frame > 0

\* C13: a frame of the resolve stage writes the history target it does not
\* sample; what it samples is what the frame before wrote, unless the
\* history was reset in between; the target it wrote is the one the next
\* frame samples; and a frame leaves the target it samples as it was.
C13_DoubleBuffering ==
  /\ [](PassResolved =>
          /\ resolved.read # resolved.written
          /\ {resolved.read, resolved.written} = {1, 2}
          /\ resolved.sampled.producedAt \in {0, resolved.frame - 1}
          /\ historyRead = resolved.written)
  /\ [][passFrame' # passFrame =>
          /\ historyTargets'[historyRead] = historyTargets[historyRead]
          /\ historyTargets'[historyRead'].producedAt = passFrame'
          /\ historyRead' # historyRead]_vars

\* A frame sampled what the frame before it wrote into the other target.
C13_Witness ==
  /\ PassResolved
  /\ resolved.frame = MaxPassFrames
  /\ resolved.sampled.producedAt = resolved.frame - 1
  /\ historyTargets[resolved.written].producedAt = resolved.frame
  /\ historyTargets[resolved.read].producedAt = resolved.frame - 1

C15_ModeChangeResetsHistory ==
  /\ pass = "mounted" =>
     (/\ passConfig.temporalUpscale =
            (cloudsRendering.temporalUpscale /\ ~debugControls["showShadowMap"])
       /\ passConfig.resolutionScale = cloudsRendering.resolutionScale
       /\ passConfig.cascadeCount = shadowRendering.cascadeCount
       /\ \A i \in {1, 2} :
            (historyTargets[i].producedAt # 0 =>
               historyTargets[i].config = passConfig))
  /\ PassResolved =>
       (resolved.sampled.producedAt # 0 =>
          resolved.sampled.config = resolved.config)

\* After frames in one mode the mode changed, and the next frame sampled an
\* empty history.
C15_Witness ==
  /\ PassResolved
  /\ resolved.frame > 1
  /\ ~resolved.config.temporalUpscale
  /\ resolved.sampled.producedAt = 0
  /\ historyTargets[resolved.written].config = passConfig

\* C17: with SHADOW_LENGTH the shadow length leaves the shader through the
\* branch the colour leaves through: the raw current sample where the colour
\* is the raw current sample; and where the colour is resolved from the
\* history, the history of the shadow length at the same reprojected UV,
\* clipped over the shadow length buffer with the gamma of the colour, and in
\* the antialiasing mode blended toward the current sample by temporalAlpha.
C17_ShadowLengthPipeline ==
  Rendered /\ defines.SHADOW_LENGTH =>
    LET gamma == IF defines.TEMPORAL_UPSCALING THEN varianceGamma
                 ELSE DefaultVarianceGamma
        clipped == varianceClipping(shadowLengthBuffer, FetchedCoord,
                                    shadowLengthBuffer[FetchedCoord],
                                    <<historyShadowLength, 0>>, gamma)[1]
        clippedColor == varianceClipping(colorBuffer, FetchedCoord,
                                         CurrentColor, historyColor, gamma)
    IN  /\ (Current \/ Rejected(ReprojectedUv)) =>
             /\ branch \in {"current", "rejected"}
             /\ resolvedColor = CurrentColor
             /\ outputShadowLength = CurrentShadowLength
        /\ (~Current /\ ~Rejected(ReprojectedUv)) =>
             /\ branch = "history"
             /\ defines.TEMPORAL_UPSCALING =>
                  /\ resolvedColor = clippedColor
                  /\ outputShadowLength = clipped
             /\ ~defines.TEMPORAL_UPSCALING =>
                  /\ \A ch \in Channels :
                       resolvedColor[ch] =
                         Lerp(clippedColor[ch], CurrentColor[ch], temporalAlpha)
                  /\ outputShadowLength =
                       Lerp(clipped, CurrentShadowLength, temporalAlpha)

\* An upscaled shadow length that the clipping moved off its history, under a
\* gamma other than the default.
C17_Witness ==
  /\ defines.SHADOW_LENGTH
  /\ defines.TEMPORAL_UPSCALING
  /\ branch = "history"
  /\ varianceGamma # DefaultVarianceGamma
  /\ outputShadowLength # historyShadowLength
  /\ outputShadowLength # CurrentShadowLength
  /\ ReprojectedUv # FragUv(coord)

\* A blended shadow length strictly between its history and the current one.
C17_WitnessAntialias ==
  /\ defines.SHADOW_LENGTH
  /\ ~defines.TEMPORAL_UPSCALING
  /\ branch = "history"
  /\ temporalAlpha = 1
  /\ outputShadowLength # historyShadowLength
  /\ outputShadowLength # CurrentShadowLength

\* The window of the depth and velocity buffer around the texel the fragment
\* fetches, in scan order, and its smallest depth.
DepthWindow ==
  [i \in 1..NeighborCount |->
     depthVelocityBuffer[<<FetchedCoord[1] + neighborOffsets[i][1],
                           FetchedCoord[2] + neighborOffsets[i][2]>>]]

SmallestDepth ==
  CHOOSE z \in {DepthWindow[i].r : i \in 1..NeighborCount} :
    \A i \in 1..NeighborCount : z <= DepthWindow[i].r

FirstOfSmallestDepth ==
  CHOOSE i \in 1..NeighborCount :
    /\ DepthWindow[i].r = SmallestDepth
    /\ \A j \in 1..(i - 1) : DepthWindow[j].r # SmallestDepth

\* C18: getClosestFragment returns the sample of the smallest depth of the
\* 3x3 window, the first of them in scan order; with no depth below 1e7 in
\* the window its velocity is zero; and the history is looked up at
\* vUv - velocity * texelSize with the velocity of that sample, which decides
\* between rejection and the use of the history.
C18_ClosestFragment ==
  LET closest == getClosestFragment(depthVelocityBuffer, FetchedCoord)
      velocity == IF SmallestDepth < FarDepth
                  THEN <<DepthWindow[FirstOfSmallestDepth].g,
                         DepthWindow[FirstOfSmallestDepth].b>>
                  ELSE <<0, 0>>
      prevUv == <<FragUv(coord)[1]
                    - (velocity[1] * (UvOne \div Width)) \div VelocityScale,
                  FragUv(coord)[2]
                    - (velocity[2] * (UvOne \div Width)) \div VelocityScale>>
  IN  /\ SmallestDepth < FarDepth => closest = DepthWindow[FirstOfSmallestDepth]
      /\ SmallestDepth >= FarDepth => closest.g = 0 /\ closest.b = 0
      /\ ReprojectedUv = prevUv
      /\ Rendered /\ ~Current =>
           (branch = "rejected") =
             (prevUv[1] < 0 \/ prevUv[1] > UvOne
                \/ prevUv[2] < 0 \/ prevUv[2] > UvOne)

\* Two texels of the smallest depth in the window, the first of them neither
\* the centre nor of the velocity of the second, and the fragment resolved
\* with the velocity of the first.
C18_Witness ==
  /\ Rendered
  /\ ~Current
  /\ SmallestDepth < FarDepth
  /\ \E j \in (FirstOfSmallestDepth + 1)..NeighborCount :
       /\ DepthWindow[j].r = SmallestDepth
       /\ DepthWindow[j] # DepthWindow[FirstOfSmallestDepth]
  /\ DepthWindow[5].r = SmallestDepth
  /\ DepthWindow[5] # DepthWindow[FirstOfSmallestDepth]
  /\ ReprojectedUv # FragUv(coord)

\* Nothing nearer than 1e7 in the window: the velocities there are not used.
C18_WitnessFar ==
  /\ Rendered
  /\ ~Current
  /\ SmallestDepth = FarDepth
  /\ DepthWindow[5].g # 0
  /\ ReprojectedUv = FragUv(coord)
  /\ branch = "history"

\* The product of two fixed-point values.
Times(a, b) == (a * b) \div One

\* The irradiances that are enabled, summed, in channel ch.
EnabledIrradiance(ch) ==
  (IF effectDefines.SUN_IRRADIANCE THEN lookup.sunIrradiance[ch] ELSE 0)
    + (IF effectDefines.SKY_IRRADIANCE THEN lookup.skyIrradiance[ch] ELSE 0)

\* The input colour, or the input colour as an albedo lit by the enabled
\* irradiances.
Base(ch) ==
  IF ~effectDefines.SUN_IRRADIANCE /\ ~effectDefines.SKY_IRRADIANCE
  THEN inputColor.rgb[ch]
  ELSE Times(Times(Times(inputColor.rgb[ch], irradianceScale), ReciprocalPi),
             EnabledIrradiance(ch))

\* C19: on the shaded path every channel of the output colour is the base,
\* multiplied by the transmittance if TRANSMITTANCE is set, and then
\* increased by the inscattered radiance if INSCATTER is set, where the base
\* is the input colour if neither irradiance is enabled and otherwise
\* inputColor * irradianceScale / pi times the sum of the enabled
\* irradiances; with the four toggles off the output is the input.
C19_ToggleComposition ==
  Shaded =>
    /\ \A ch \in 1..3 :
         effectOutputColor.rgb[ch] =
           (IF effectDefines.TRANSMITTANCE
            THEN Times(Base(ch), lookup.transmittance[ch]) ELSE Base(ch))
             + (IF effectDefines.INSCATTER THEN lookup.inscatter[ch] ELSE 0)
    /\ (/\ ~effectDefines.SUN_IRRADIANCE /\ ~effectDefines.SKY_IRRADIANCE
        /\ ~effectDefines.TRANSMITTANCE /\ ~effectDefines.INSCATTER)
         => effectOutputColor = inputColor

\* Every toggle on over an atmosphere that attenuates and scatters: the
\* inscattered radiance arrived whole, after the attenuation.
C19_Witness ==
  /\ Shaded
  /\ effectDefines.SUN_IRRADIANCE /\ effectDefines.SKY_IRRADIANCE
  /\ effectDefines.TRANSMITTANCE /\ effectDefines.INSCATTER
  /\ \E ch \in 1..3 :
       /\ Base(ch) # inputColor.rgb[ch]
       /\ lookup.inscatter[ch] > 0
       /\ lookup.transmittance[ch] \in 1..(One - 1)
       /\ Times(Base(ch), lookup.transmittance[ch]) # Base(ch)
       /\ effectOutputColor.rgb[ch] #
            Times(Base(ch) + lookup.inscatter[ch], lookup.transmittance[ch])

\* Every toggle off on a pixel nearer than the far plane.
C19_WitnessOff ==
  /\ Shaded
  /\ \A k \in {"SUN_IRRADIANCE", "SKY_IRRADIANCE", "TRANSMITTANCE", "INSCATTER"} :
       ~effectDefines[k]
  /\ depth = DepthOne - 2
  /\ effectOutputColor = inputColor
  /\ Shade([effectDefines EXCEPT !.INSCATTER = TRUE], inputColor,
           irradianceScale, lookup) # inputColor

\* The value last assigned to sun, true before the first assignment.
LastSun ==
  IF sunAssignments = <<>> THEN TRUE
  ELSE sunAssignments[Len(sunAssignments)]

\* C20: after construction and any assignments the getter of sun returns the
\* value last assigned, true before the first, and SUN is defined exactly
\* when that value is true; an assignment of the value held leaves the
\* defines as they are and does not set needsUpdate; an assignment of the
\* other value flips SUN alone and sets needsUpdate once.
C20_SunToggle ==
  /\ [](/\ Sun(materialDefines) = LastSun
        /\ ("SUN" \in materialDefines) = LastSun)
  /\ [][sunAssignments' # sunAssignments =>
          IF LastSun' = LastSun
          THEN /\ materialDefines' = materialDefines
               /\ materialVersion' = materialVersion
          ELSE /\ ("SUN" \in materialDefines') # ("SUN" \in materialDefines)
               /\ materialDefines' \ {"SUN"} = materialDefines \ {"SUN"}
               /\ materialVersion' = materialVersion + 1]_vars

\* The sun was turned off, on again, and then assigned the value it had.
C20_Witness ==
  /\ Len(sunAssignments) >= 3
  /\ sunAssignments[1] = FALSE
  /\ sunAssignments[Len(sunAssignments) - 1] = TRUE
  /\ LastSun
  /\ materialVersion = 2
  /\ "SUN" \in materialDefines

====
